---- MODULE Spec2Model ----
(***************************************************************************)
(* A model of the AI conversation client (src/ai_conversation_client) and  *)
(* of the objects its callers hold.                                        *)
(*                                                                         *)
(* Text is a sequence of one-character strings, so that trimming and       *)
(* emptiness are computed and not assumed.  Python's None is the text      *)
(* NoneText.  A Python list object lives in the heap `lists` and is named  *)
(* by its index there; a Conversation holds the reference of its           *)
(* _messages list.  send_message is a coroutine: the code from its entry   *)
(* to the await of the backend call runs without interruption, and so does *)
(* the code from the backend's outcome to the return or raise.             *)
(***************************************************************************)
EXTENDS Integers, Sequences, FiniteSets, TLC

\* ---------------------------------------------------------------- bounds
MaxConversations == 2
MaxCalls == 2
\* the caller scenario: conversations, sends, and the caller's own operations
\* (lists read, mutations of them, add_message calls)
MaxCallerConversations == 1
MaxCallerCalls == 1
MaxCallerOps == 3
\* The longest reply text drawn from ScoreAlphabet
MaxReplyLen == 3
\* The most emails in the inbox
MaxItems == 3
\* The most messages of a conversation drawn for saving or for reading
MaxStoredLen == 2
\* The most messages of a conversation whose latest messages are read
MaxLatest == 3

\* ------------------------------------------------------------- the inputs
NoneText == <<"None">>
Titles == {NoneText}
SystemPrompts == {NoneText, <<>>, <<"s">>}
UserContents == {<<>>, <<" ", "h">>}
ReplyContents == {<<"7">>}
\* response.choices, each choice given by its message content
Responses == {<<>>} \cup {<<r>> : r \in ReplyContents}
ProviderErrors == {"APIError", "APITimeoutError"}
ConversationIds == 1..MaxConversations
\* what a caller does to a list it holds, the messages it constructs, and
\* the arguments it creates conversations and sends with
ViewOps == {"append", "pop", "reverse"}
CallerRoles == {"user"}
CallerContents == {<<"c">>}
CallerSystemPrompts == {<<"s">>}
Calls == 1..MaxCalls

VARIABLES
    conversations,  \* AIClient._conversations: id -> Conversation
    lists,          \* the heap of list objects: reference -> sequence of Message
    calls,          \* the send_message coroutines: call -> frame
    system_prompts, \* the system_prompt argument each conversation was created with
    views,          \* the lists the caller got from Conversation.messages
    callerAdds,     \* the number of add_message calls the caller has made
    batch,          \* SpamDetector.analyze_inbox: its arguments, locals and output
    probe           \* the operation applied to a drawn input, and its result

vars == <<conversations, lists, calls, system_prompts, views, callerAdds,
          batch, probe>>

\* ------------------------------------------------------------------ text
Whitespace == {" ", "\t", "\n"}

\* bool(text): None and the empty string are falsy
Truthy(text) == text # NoneText /\ text # <<>>

RECURSIVE lstrip(_)
lstrip(text) ==
    IF text # <<>> /\ Head(text) \in Whitespace THEN lstrip(Tail(text)) ELSE text

RECURSIVE rstrip(_)
rstrip(text) ==
    IF text # <<>> /\ text[Len(text)] \in Whitespace
    THEN rstrip(SubSeq(text, 1, Len(text) - 1))
    ELSE text

\* str.strip()
strip(text) == rstrip(lstrip(text))

\* ---------------------------------------------------------------- Message
\* Message.__init__ with message_id and timestamp left to their defaults: a
\* fresh uuid and datetime.now().  Both are opaque values that no two
\* constructions share, so each is named by the construction, `site`.  The
\* content is stored as given.
Message(content, role, site) ==
    [id |-> <<"msg", site>>, content |-> content, role |-> role,
     timestamp |-> <<"at", site>>]

\* Message.to_dict
MessageToDict(msg) == [role |-> msg.role, content |-> msg.content]

\* ----------------------------------------------------------- Conversation
\* The title Conversation.__init__ stores: title or f"Conversation {id}"
TitleOf(id, title) == IF Truthy(title) THEN title ELSE <<"Conversation", id>>

\* add_message inserting at the front of the list
add_message_prepend(messages, message) == <<message>> \o messages

\* Conversation.add_message, on the contents of the _messages list
add_message(messages, message) == Append(messages, message)

\* add_message on a _messages list that all conversations share
AddToShared(conversation, message) ==
    [lists EXCEPT ![1] = add_message(@, message)]

\* The list heap after conversation.add_message(message)
AddTo(conversation, message) ==
    [lists EXCEPT ![conversation.messages] = add_message(@, message)]

\* Conversation.messages returning the stored list itself
messages_live(conversation) ==
    [lists |-> lists, ref |-> conversation.messages]

\* The property Conversation.messages: self._messages.copy(), a new list
\* object with the elements of the stored one.  The heap with the new list,
\* and its reference.
messages(conversation) ==
    [lists |-> Append(lists, lists[conversation.messages]), ref |-> Len(lists) + 1]

RECURSIVE Reverse(_)
Reverse(list) ==
    IF list = <<>> THEN <<>> ELSE Append(Reverse(Tail(list)), Head(list))

\* list.append(message), list.pop(), list.reverse() on a list the caller holds
ApplyViewOp(list, op, message) ==
    CASE op = "append" -> Append(list, message)
      [] op = "pop" -> SubSeq(list, 1, Len(list) - 1)
      [] op = "reverse" -> Reverse(list)

\* ---------------------------------------------------------------- AIClient
\* get_conversation falling back to a registered conversation
get_conversation_any(conversation_id) ==
    IF conversation_id \in DOMAIN conversations
    THEN {conversations[conversation_id]}
    ELSE {conversations[i] : i \in DOMAIN conversations}

\* AIClient.get_conversation: the Conversation, or nothing (None)
get_conversation(conversation_id) ==
    IF conversation_id \in DOMAIN conversations
    THEN {conversations[conversation_id]}
    ELSE {}

\* the handler re-raising the exception it caught
HandleExceptionLeak(e) == e

\* except Exception as e: raise ConnectionError(...) from e
HandleException(e) == "ConnectionError"

\* The frame of a send_message call that has not started: its arguments,
\* its local variables, whether it has invoked the backend, and its outcome
IdleFrame ==
    [pc |-> "idle", conversation_id |-> 0, message_content |-> <<>>,
     conversation |-> {},
     user_message |-> <<>>, messages |-> <<>>, invoked |-> FALSE,
     response |-> <<>>, ai_message |-> <<>>, returned |-> <<>>, error |-> "None"]

\* No analyze_inbox run, and no operation applied
NoBatch == [pc |-> "none"]
NoProbe == [op |-> "none"]

\* A client after AIClient.__init__, and a caller holding nothing
InitClient ==
    /\ conversations = <<>>
    /\ lists = <<>>
    /\ calls = [k \in Calls |-> IdleFrame]
    /\ system_prompts = <<>>
    /\ views = <<>>
    /\ callerAdds = 0

Init ==
    /\ InitClient
    /\ batch = NoBatch
    /\ probe = NoProbe

\* A client that keeps the latest conversation only
RegisterOnly(conversation) ==
    [i \in {conversation.id} |-> conversation]

\* self._conversations[conversation.id] = conversation
Register(conversation) ==
    [i \in DOMAIN conversations \cup {conversation.id} |->
       IF i = conversation.id THEN conversation ELSE conversations[i]]

\* AIClient.create_conversation: Conversation.__init__ makes the id, the title
\* and the empty _messages list, adds the system message for a truthy system
\* prompt, and the client stores the conversation under its id.
create_conversation(title, system_prompt) ==
    /\ Cardinality(DOMAIN conversations) < MaxConversations
    /\ LET id == Cardinality(DOMAIN conversations) + 1
           ref == Len(lists) + 1
           conversation == [id |-> id, title |-> TitleOf(id, title), messages |-> ref]
           fresh == Append(lists, <<>>)
       IN /\ lists' = IF Truthy(system_prompt)
                       THEN [fresh EXCEPT ![ref] = add_message(@,
                               Message(system_prompt, "system", <<"conv", id>>))]
                       ELSE fresh
          /\ conversations' = Register(conversation)
          /\ system_prompts' =
               [i \in DOMAIN conversations \cup {id} |->
                  IF i = id THEN system_prompt ELSE system_prompts[i]]
    /\ UNCHANGED <<calls, views, callerAdds>>

\* AIClient.send_message from its entry to the await of the backend call: the
\* lookup, the ValueError for an unknown id, the user message, the history
\* handed to the backend.
send_message(k, conversation_id, message_content) ==
    /\ calls[k].pc = "idle"
    /\ \A j \in Calls : j < k => calls[j].pc # "idle"
    /\ LET found == get_conversation(conversation_id)
           frame == [calls[k] EXCEPT !.conversation_id = conversation_id,
                                     !.message_content = message_content,
                                     !.conversation = found]
       IN IF found = {}
          THEN /\ calls' = [calls EXCEPT ![k] =
                              [frame EXCEPT !.pc = "raised", !.error = "ValueError"]]
               /\ UNCHANGED lists
          ELSE LET conversation == CHOOSE c \in found : TRUE
                   user_message == Message(message_content, "user", <<"call", k, "user">>)
                   after == AddTo(conversation, user_message)
                   \* conversation.messages: a copy of the stored list
                   history == after[conversation.messages]
               IN /\ lists' = after
                  /\ calls' = [calls EXCEPT ![k] =
                       [frame EXCEPT
                          !.pc = "awaiting",
                          !.user_message = <<user_message>>,
                          !.messages = [i \in 1..Len(history) |-> MessageToDict(history[i])],
                          !.invoked = TRUE]]
    /\ UNCHANGED <<conversations, system_prompts, views, callerAdds>>

\* The backend call returns `response`: send_message takes the content of
\* the first choice, appends the assistant message and returns it; a
\* response without choices raises IndexError inside the try block.
BackendReturns(k, response) ==
    /\ calls[k].pc = "awaiting"
    /\ IF response = <<>>
       THEN /\ calls' = [calls EXCEPT ![k].pc = "raised",
                                      ![k].error = HandleException("IndexError")]
            /\ UNCHANGED lists
       ELSE LET conversation == CHOOSE c \in calls[k].conversation : TRUE
                ai_message == Message(response[1], "assistant", <<"call", k, "assistant">>)
            IN /\ lists' = AddTo(conversation, ai_message)
               /\ calls' = [calls EXCEPT ![k].pc = "returned",
                                         ![k].response = <<response>>,
                                         ![k].ai_message = <<ai_message>>,
                                         ![k].returned = <<ai_message>>]
    /\ UNCHANGED <<conversations, system_prompts, views, callerAdds>>

\* The backend call raises e: send_message raises ConnectionError from it.
BackendRaises(k, e) ==
    /\ calls[k].pc = "awaiting"
    /\ calls' = [calls EXCEPT ![k].pc = "raised", ![k].error = HandleException(e)]
    /\ UNCHANGED <<conversations, lists, system_prompts, views, callerAdds>>

\* The number of mutations the caller has made of the lists in vs
RECURSIVE Mutations(_)
Mutations(vs) == IF vs = <<>> THEN 0 ELSE Head(vs).mutations + Mutations(Tail(vs))

\* The number of operations the caller has made
CallerOps == Len(views) + Mutations(views) + callerAdds

\* The caller reads conversation.messages of a conversation the client
\* returned to it, and keeps the list.
GetMessages(id) ==
    /\ id \in DOMAIN conversations
    /\ CallerOps < MaxCallerOps
    /\ LET got == messages(conversations[id])
       IN /\ lists' = got.lists
          /\ views' = Append(views,
               [ref |-> got.ref, conversation_id |-> id, mutations |-> 0])
    /\ UNCHANGED <<conversations, calls, system_prompts, callerAdds>>

\* The caller mutates a list it got from conversation.messages.
MutateView(v, op, role, content) ==
    /\ v \in DOMAIN views
    /\ CallerOps < MaxCallerOps
    /\ op = "pop" => lists[views[v].ref] # <<>>
    /\ lists' = [lists EXCEPT ![views[v].ref] =
          ApplyViewOp(@, op, Message(content, role, <<"view", v, views[v].mutations>>))]
    /\ views' = [views EXCEPT ![v].mutations = @ + 1]
    /\ UNCHANGED <<conversations, calls, system_prompts, callerAdds>>

\* The caller calls add_message on a Conversation the client returned to it
\* (create_conversation, get_conversation and list_conversations all return
\* the stored object itself), as test_save_and_load_conversations does.
CallerAddMessage(id, role, content) ==
    /\ id \in DOMAIN conversations
    /\ CallerOps < MaxCallerOps
    /\ lists' = AddTo(conversations[id], Message(content, role, <<"caller", callerAdds>>))
    /\ callerAdds' = callerAdds + 1
    /\ UNCHANGED <<conversations, calls, system_prompts, views>>

Next ==
    \/ \E title \in Titles, system_prompt \in SystemPrompts :
          create_conversation(title, system_prompt) /\ UNCHANGED <<batch, probe>>
    \/ \E k \in Calls, id \in ConversationIds, content \in UserContents :
          send_message(k, id, content) /\ UNCHANGED <<batch, probe>>
    \/ \E k \in Calls, response \in Responses :
          BackendReturns(k, response) /\ UNCHANGED <<batch, probe>>
    \/ \E k \in Calls, e \in ProviderErrors :
          BackendRaises(k, e) /\ UNCHANGED <<batch, probe>>

Spec == Init /\ [][Next]_vars

\* The client together with a caller that keeps and uses what it is handed.
NextCaller ==
    \/ \E title \in Titles, system_prompt \in CallerSystemPrompts :
          /\ Cardinality(DOMAIN conversations) < MaxCallerConversations
          /\ create_conversation(title, system_prompt)
          /\ UNCHANGED <<batch, probe>>
    \/ \E k \in 1..MaxCallerCalls, id \in ConversationIds, content \in CallerContents :
          send_message(k, id, content) /\ UNCHANGED <<batch, probe>>
    \/ \E k \in Calls, response \in Responses :
          BackendReturns(k, response) /\ UNCHANGED <<batch, probe>>
    \/ \E k \in Calls, e \in ProviderErrors :
          BackendRaises(k, e) /\ UNCHANGED <<batch, probe>>
    \/ \E id \in ConversationIds : GetMessages(id) /\ UNCHANGED <<batch, probe>>
    \/ \E v \in DOMAIN views, op \in ViewOps, role \in CallerRoles,
          content \in CallerContents :
          MutateView(v, op, role, content) /\ UNCHANGED <<batch, probe>>
    \/ \E id \in ConversationIds, role \in CallerRoles, content \in CallerContents :
          CallerAddMessage(id, role, content) /\ UNCHANGED <<batch, probe>>

SpecCaller == Init /\ [][NextCaller]_vars

\* ------------------------------------------------------ the score of a reply
\* A number is the pair n, d that stands for n / 10^d, with no trailing zero
\* in its decimal part, so that two numbers are equal when the pairs are.
Digits == {"0", "1", "2", "3", "4", "5", "6", "7", "8", "9"}

DigitValue(c) ==
    CASE c = "0" -> 0 [] c = "1" -> 1 [] c = "2" -> 2 [] c = "3" -> 3
      [] c = "4" -> 4 [] c = "5" -> 5 [] c = "6" -> 6 [] c = "7" -> 7
      [] c = "8" -> 8 [] c = "9" -> 9

RECURSIVE Pow10(_)
Pow10(d) == IF d = 0 THEN 1 ELSE 10 * Pow10(d - 1)

RECURSIVE Normalise(_)
Normalise(x) ==
    IF x.d > 0 /\ x.n % 10 = 0 THEN Normalise([n |-> x.n \div 10, d |-> x.d - 1])
    ELSE x

Less(a, b) == a.n * Pow10(b.d) < b.n * Pow10(a.d)

\* The bounds of the range in max(0, min(100, pct))
MinPct == 0
MaxPct == 100

Whole(n) == [n |-> n, d |-> 0]

\* The position of the last digit of the longest run of digits from i on
RECURSIVE DigitRun(_, _)
DigitRun(text, i) ==
    IF i < Len(text) /\ text[i + 1] \in Digits THEN DigitRun(text, i + 1) ELSE i

\* The end of the match of \d+(?:\.\d+)? that starts at the digit at i
MatchEnd(text, i) ==
    LET j == DigitRun(text, i)
    IN IF j + 2 <= Len(text) /\ text[j + 1] = "." /\ text[j + 2] \in Digits
       THEN DigitRun(text, j + 2)
       ELSE j

\* The matches of \d+ alone, from position i on
RECURSIVE findall_whole(_, _)
findall_whole(text, i) ==
    IF i > Len(text) THEN <<>>
    ELSE IF text[i] \notin Digits THEN findall_whole(text, i + 1)
    ELSE <<SubSeq(text, i, DigitRun(text, i))>>
             \o findall_whole(text, DigitRun(text, i) + 1)

\* re.findall(r'\d+(?:\.\d+)?', text): the matches from position i on, from
\* left to right and without overlap
RECURSIVE findall(_, _)
findall(text, i) ==
    IF i > Len(text) THEN <<>>
    ELSE IF text[i] \notin Digits THEN findall(text, i + 1)
    ELSE <<SubSeq(text, i, MatchEnd(text, i))>>
             \o findall(text, MatchEnd(text, i) + 1)

\* int of a run of digits
RECURSIVE DigitsValue(_)
DigitsValue(s) ==
    IF s = <<>> THEN 0
    ELSE 10 * DigitsValue(SubSeq(s, 1, Len(s) - 1)) + DigitValue(s[Len(s)])

\* float(s) of a match: digits, and perhaps a point and digits
float(s) ==
    LET dots == {i \in 1..Len(s) : s[i] = "."}
    IN IF dots = {} THEN Whole(DigitsValue(s))
       ELSE LET p == CHOOSE i \in dots : TRUE
            IN Normalise([n |-> DigitsValue(SubSeq(s, 1, p - 1) \o
                                            SubSeq(s, p + 1, Len(s))),
                          d |-> Len(s) - p])

\* No clamping at all
ClampNone(pct) == pct

\* max(0, min(100, pct))
Clamp(pct) ==
    LET m == IF Less(pct, Whole(MaxPct)) THEN pct ELSE Whole(MaxPct)
    IN IF Less(Whole(MinPct), m) THEN m ELSE Whole(MinPct)

\* numbers[-1]
LastNumber(numbers) == numbers[Len(numbers)]

\* numbers[0]
FirstNumber(numbers) == numbers[1]

\* A handler that returns 0.0 and prints nothing
AnalyzeErrorSilent(e) == [raised |-> FALSE, value |-> Whole(0), printed |-> <<>>]

\* analyze_email's except clause: print the error and return 0.0
AnalyzeError(e) == [raised |-> FALSE, value |-> Whole(0), printed |-> <<e>>]

\* analyze_email from the outcome of its send_message call on: the call
\* raised `error`, or returned a message with the content `content`
analyze_email(raised, error, content) ==
    IF raised THEN AnalyzeError(error)
    ELSE IF content = NoneText THEN AnalyzeError("TypeError")
    ELSE LET numbers == findall(content, 1)
         IN IF numbers # <<>>
            THEN [raised |-> FALSE, value |-> Clamp(float(FirstNumber(numbers))),
                  printed |-> <<>>]
            ELSE [raised |-> FALSE, value |-> Whole(0), printed |-> <<>>]

\* The replies analyze_email is applied to: every text over ScoreAlphabet
\* up to MaxReplyLen characters, two replies in words, and a missing body
ScoreAlphabet == {"0", "1", "5", ".", "-", "%", " ", "w"}

RECURSIVE TextsUpTo(_, _)
TextsUpTo(alphabet, n) ==
    IF n = 0 THEN {<<>>}
    ELSE LET shorter == TextsUpTo(alphabet, n - 1)
         IN shorter \cup {Append(t, c) : t \in shorter, c \in alphabet}

PercentageReply ==
    <<"7", "5", "%", " ", "p", "r", "o", "b", "a", "b", "i", "l", "i", "t", "y",
      " ", "o", "f", " ", "s", "p", "a", "m">>
WordsReply ==
    <<"T", "h", "i", "s", " ", "e", "m", "a", "i", "l", " ", "d", "o", "e",
      "s", " ", "n", "o", "t", " ", "a", "p", "p", "e", "a", "r", " ", "t",
      "o", " ", "b", "e", " ", "s", "p", "a", "m", ".">>

ReplyTexts ==
    TextsUpTo(ScoreAlphabet, MaxReplyLen) \cup {PercentageReply, WordsReply, NoneText}

\* What send_message can raise to analyze_email
SendErrors == {"ConnectionError", "ValueError"}

\* A detector about to analyse one email, and the outcome its send_message
\* call will have
InitScore ==
    /\ InitClient
    /\ batch = NoBatch
    /\ \E raised \in BOOLEAN, content \in ReplyTexts, error \in SendErrors :
          /\ raised => content = <<>>
          /\ ~raised => error = "ConnectionError"
          /\ probe = [op |-> "analyze_email", raised |-> raised, error |-> error,
                      content |-> content, done |-> FALSE]

\* SpamDetector.analyze_email, from the outcome of send_message to its return
AnalyzeEmail ==
    /\ probe.op = "analyze_email" /\ ~probe.done
    /\ probe' = [probe EXCEPT !.done = TRUE] @@
                [result |-> analyze_email(probe.raised, probe.error, probe.content)]
    /\ UNCHANGED <<conversations, lists, calls, system_prompts, views, callerAdds,
                   batch>>

NextScore == AnalyzeEmail

SpecScore == InitScore /\ [][NextScore]_vars

\* ------------------------------------------------------- integrate_email_ai
\* str.split(): the runs of characters between whitespace
RECURSIVE split(_)
split(text) ==
    LET t == lstrip(text)
    IN IF t = <<>> THEN <<>>
       ELSE LET stops == {i \in 1..Len(t) : t[i] \in Whitespace}
                e == IF stops = {} THEN Len(t) + 1
                     ELSE CHOOSE i \in stops : \A j \in stops : i <= j
            IN <<SubSeq(t, 1, e - 1)>> \o split(SubSeq(t, e, Len(t)))

\* float(token) of a text without whitespace, over the characters of the
\* replies drawn: an optional minus sign, then digits with at most one point
\* and at least one digit; the number, or ValueError (nothing)
FloatOf(token) ==
    LET negative == token # <<>> /\ token[1] = "-"
        body == IF negative THEN Tail(token) ELSE token
        points == {i \in 1..Len(body) : body[i] = "."}
        digits == SelectSeq(body, LAMBDA c : c \in Digits)
    IN IF /\ digits # <<>>
          /\ Cardinality(points) <= 1
          /\ \A i \in 1..Len(body) : body[i] \in Digits \cup {"."}
       THEN LET decimals == IF points = {} THEN 0
                            ELSE Len(body) - (CHOOSE i \in points : TRUE)
                magnitude == Normalise([n |-> DigitsValue(digits), d |-> decimals])
            IN {[n |-> IF negative THEN 0 - magnitude.n ELSE magnitude.n,
                 d |-> magnitude.d]}
       ELSE {}

\* get_spam_probability from the outcome of its send_message call on: an
\* exception of send_message is not caught; inside the try, the first word
\* of the stripped reply is converted by float, and any exception gives 0.0
get_spam_probability(raised, error, content) ==
    IF raised THEN [raised |-> TRUE, error |-> error, value |-> Whole(0)]
    ELSE IF content = NoneText
    THEN [raised |-> FALSE, error |-> "None", value |-> Whole(0)]
    ELSE LET words == split(strip(content))
         IN IF words = <<>> \/ FloatOf(words[1]) = {}
            THEN [raised |-> FALSE, error |-> "None", value |-> Whole(0)]
            ELSE [raised |-> FALSE, error |-> "None",
                  value |-> CHOOSE x \in FloatOf(words[1]) : TRUE]

\* integrate_email_ai.get_spam_probability on the same outcome of send_message
GetSpamProbability ==
    /\ probe.op = "analyze_email" /\ "other" \notin DOMAIN probe
    /\ probe' = probe @@
          [other |-> get_spam_probability(probe.raised, probe.error, probe.content)]
    /\ UNCHANGED <<conversations, lists, calls, system_prompts, views, callerAdds,
                   batch>>

\* Both drivers score the same reply
NextDrivers == AnalyzeEmail \/ GetSpamProbability

SpecDrivers == InitScore /\ [][NextDrivers]_vars

\* ------------------------------------------------------------ SpamDetector
\* The title and the system prompt of the detector's conversation, and the
\* prompt of one email; the fixed parts of the prompts are single tokens.
SpamTitle == <<"S", "p", "a", "m", " ", "D", "e", "t", "e", "c", "t", "i", "o", "n">>
SpamSystemPrompt ==
    <<"You are an AI that determines the probability that an email is spam. ...">>
Prompt(email_body) ==
    <<"Email content: ">> \o email_body
        \o <<"\n\nBased on this email, what is the probability (0-100) that this is spam?">>

\* The inboxes: up to MaxItems emails, the email at position i having the
\* identifier of that position and one of two bodies
EmailBodies == {<<"x">>, <<"y">>}
Inboxes ==
    UNION {[1..n -> EmailBodies] : n \in 0..MaxItems}
Email(inbox, i) == [id |-> <<"mail", i>>, body |-> inbox[i]]

\* limit: None is the empty set
Limits == {{}} \cup {{k} : k \in 0..MaxItems}

\* The replies of the backend to the detector
BatchReplyContents == {<<"7">>, <<"4", "2">>}
BatchResponses == {<<>>} \cup {<<r>> : r \in BatchReplyContents}

\* email_client.get_messages(folder, limit): the emails of the folder in
\* source order, the first `limit` of them when a limit is given
get_messages(inbox, limit) ==
    LET all == [i \in 1..Len(inbox) |-> Email(inbox, i)]
    IN IF limit = {} THEN all
       ELSE LET k == CHOOSE k \in limit : TRUE
            IN SubSeq(all, 1, IF k < Len(all) THEN k ELSE Len(all))

\* A loop body that keeps only the row of the last email
analyze_inbox_row_only(results, mail_id, outcome) ==
    <<[mail_id |-> mail_id, Pct_spam |-> outcome.value]>>

\* A loop body that puts each row before the earlier ones
analyze_inbox_row_front(results, mail_id, outcome) ==
    <<[mail_id |-> mail_id, Pct_spam |-> outcome.value]>> \o results

\* A loop body that gives every row the identifier of the first email
analyze_inbox_row_first_id(results, mail_id, outcome) ==
    Append(results, [mail_id |-> <<"mail", 1>>, Pct_spam |-> outcome.value])

\* The body of analyze_inbox's loop after analyze_email: the row of the
\* email is appended, with 0.0 when analyze_email raised
analyze_inbox_row(results, mail_id, outcome) ==
    IF outcome.raised
    THEN Append(results, [mail_id |-> mail_id, Pct_spam |-> Whole(0)])
    ELSE Append(results, [mail_id |-> mail_id, Pct_spam |-> outcome.value])

\* A client, an inbox, and a detector not yet constructed
InitBatch ==
    /\ InitClient
    /\ probe = NoProbe
    /\ \E inbox \in Inboxes :
          batch = [pc |-> "new", inbox |-> inbox, conversation |-> {},
                   limit |-> {}, messages |-> <<>>, i |-> 1, results |-> <<>>,
                   printed |-> <<>>, sent |-> <<>>]

\* SpamDetector.__init__: the conversation with the system prompt
SpamDetectorInit ==
    /\ batch.pc = "new"
    /\ create_conversation(SpamTitle, SpamSystemPrompt)
    /\ batch' = [batch EXCEPT
                   !.pc = "ready",
                   !.conversation =
                       {conversations'[Cardinality(DOMAIN conversations) + 1]}]
    /\ UNCHANGED probe

\* analyze_inbox from its entry to the first email of the loop, or to its
\* return for an empty folder
analyze_inbox(limit) ==
    /\ batch.pc = "ready"
    /\ LET found == get_messages(batch.inbox, limit)
       IN /\ Len(found) <= MaxCalls
          /\ batch' = [batch EXCEPT !.pc = IF found = <<>> THEN "done" ELSE "item",
                                    !.limit = limit, !.messages = found]
    /\ UNCHANGED <<conversations, lists, calls, system_prompts, views, callerAdds,
                   probe>>

\* A loop that goes on to send while a call is outstanding
NotSuspended(b) == b

\* analyze_inbox waits in `await self.analyze_email(body)` for the call
Suspended(b) == [b EXCEPT !.pc = "awaiting"]

\* A loop that sends the email again after a failure
AfterAnalysisRetry(k, frame) ==
    IF frame.pc = "raised"
    THEN [batch EXCEPT !.sent = Append(@, k), !.pc = "item"]
    ELSE [batch EXCEPT
            !.results = Append(@, [mail_id |-> batch.messages[batch.i].id,
                                   Pct_spam |-> Whole(0)]),
            !.sent = Append(@, k),
            !.i = @ + 1,
            !.pc = IF batch.i = Len(batch.messages) THEN "done" ELSE "item"]

\* The batch after analyze_email has finished on email i with call k, whose
\* frame is `frame`: the row is added and the loop goes on or ends
AfterAnalysis(k, frame) ==
    LET outcome == analyze_email(frame.pc = "raised", frame.error,
                                 IF frame.pc = "returned"
                                 THEN frame.returned[1].content ELSE <<>>)
    IN [batch EXCEPT
          !.results = analyze_inbox_row(@, batch.messages[batch.i].id, outcome),
          !.printed = @ \o outcome.printed,
          !.sent = Append(@, k),
          !.i = @ + 1,
          !.pc = IF batch.i = Len(batch.messages) THEN "done" ELSE "item"]

\* The loop body for email i up to the await in send_message: analyze_email
\* builds the prompt and calls send_message on the detector's conversation
AnalyzeItem(k) ==
    /\ batch.pc = "item"
    /\ LET conversation == CHOOSE c \in batch.conversation : TRUE
       IN send_message(k, conversation.id, Prompt(batch.messages[batch.i].body))
    /\ batch' = IF calls'[k].pc = "raised" THEN AfterAnalysis(k, calls'[k])
                ELSE Suspended(batch)
    /\ UNCHANGED probe

\* The backend answers the call of email i: send_message finishes,
\* analyze_email scores the reply and the row is added
ItemReturns(k, response) ==
    /\ batch.pc = "awaiting"
    /\ BackendReturns(k, response)
    /\ batch' = AfterAnalysis(k, calls'[k])
    /\ UNCHANGED probe

\* The backend call of email i raises
ItemRaises(k, e) ==
    /\ batch.pc = "awaiting"
    /\ BackendRaises(k, e)
    /\ batch' = AfterAnalysis(k, calls'[k])
    /\ UNCHANGED probe

NextBatch ==
    \/ SpamDetectorInit
    \/ \E limit \in Limits : analyze_inbox(limit)
    \/ \E k \in Calls : AnalyzeItem(k)
    \/ \E k \in Calls, response \in BatchResponses : ItemReturns(k, response)
    \/ \E k \in Calls, e \in ProviderErrors : ItemRaises(k, e)

SpecBatch == InitBatch /\ [][NextBatch]_vars

\* The batch with replies that have no body or no numeral among the others
LogReplyContents == {<<"7">>, NoneText, <<"o", "k">>}
LogResponses == {<<>>} \cup {<<r>> : r \in LogReplyContents}

NextBatchLog ==
    \/ SpamDetectorInit
    \/ \E limit \in Limits : analyze_inbox(limit)
    \/ \E k \in Calls : AnalyzeItem(k)
    \/ \E k \in Calls, response \in LogResponses : ItemReturns(k, response)
    \/ \E k \in Calls, e \in ProviderErrors : ItemRaises(k, e)

SpecBatchLog == InitBatch /\ [][NextBatchLog]_vars

\* ------------------------------------------------------- saving and loading
MessageRoles == {"system", "user", "assistant", "function"}

\* MessageRole(value): the member with that value, or ValueError (no member)
MessageRole(value) == IF value \in MessageRoles THEN {value} ELSE {}

\* datetime.isoformat and datetime.fromisoformat: the text of a timestamp,
\* and the timestamp of such a text, or ValueError (none) for another text
isoformat(timestamp) == <<"iso", timestamp>>
fromisoformat(text) ==
    IF Len(text) = 2 /\ text[1] = "iso" THEN {text[2]} ELSE {}

\* json.dump and json.load of a str or None: a quoted string, or null
JsonDump(text) == IF text = NoneText THEN <<"null">> ELSE <<"\"">> \o text \o <<"\"">>
JsonLoad(json) ==
    IF json = <<"null">> THEN NoneText ELSE SubSeq(json, 2, Len(json) - 1)

\* from_dict giving every message the default role
RoleOfDefault(msg_data) == "user"

\* msg_data.get("role", "user") of a record that has the key
RoleOf(msg_data) == msg_data.role

\* Conversation.to_dict, with the list of the conversation
to_dict(conversation, list) ==
    [id |-> conversation.id,
     title |-> conversation.title,
     messages |-> [i \in 1..Len(list) |->
                     [id |-> list[i].id, content |-> list[i].content,
                      role |-> list[i].role,
                      timestamp |-> isoformat(list[i].timestamp)]]]

\* The file that json.dump writes for a list of to_dict records, and the
\* records json.load reads from it
DumpFile(datas) ==
    [i \in 1..Len(datas) |->
       [datas[i] EXCEPT
          !.title = JsonDump(@),
          !.messages = [j \in 1..Len(datas[i].messages) |->
                          [datas[i].messages[j] EXCEPT !.content = JsonDump(@)]]]]
LoadFile(file) ==
    [i \in 1..Len(file) |->
       [file[i] EXCEPT
          !.title = JsonLoad(@),
          !.messages = [j \in 1..Len(file[i].messages) |->
                          [file[i].messages[j] EXCEPT !.content = JsonLoad(@)]]]]

\* The Message that from_dict makes of msg_data: the stored id, the parsed
\* timestamp, or the time of loading for a text that does not parse
MessageOf(msg_data, site) ==
    LET parsed == fromisoformat(msg_data.timestamp)
    IN [id |-> msg_data.id, content |-> msg_data.content,
        role |-> RoleOf(msg_data),
        timestamp |-> IF parsed = {} THEN <<"at", site>>
                      ELSE CHOOSE t \in parsed : TRUE]

\* The loop of from_dict: the messages are added one after another
RECURSIVE AddAll(_, _, _)
AddAll(list, msg_datas, site) ==
    IF msg_datas = <<>> THEN list
    ELSE AddAll(add_message(list, MessageOf(Head(msg_datas), <<site, Len(list)>>)),
                Tail(msg_datas), site)

\* Conversation.from_dict: the id, the title and the message list of the new
\* conversation, or the ValueError of MessageRole for a role it does not know
from_dict(data) ==
    IF \E i \in 1..Len(data.messages) : MessageRole(RoleOf(data.messages[i])) = {}
    THEN [raised |-> TRUE]
    ELSE [raised |-> FALSE, id |-> data.id, title |-> TitleOf(data.id, data.title),
          messages |-> AddAll(<<>>, data.messages, <<"load", data.id>>)]

\* list_conversations: the registered conversations in the order of their
\* registration, which is the order of their ids
list_conversations ==
    [i \in 1..Cardinality(DOMAIN conversations) |->
       conversations[CHOOSE id \in DOMAIN conversations :
                       Cardinality({j \in DOMAIN conversations : j <= id}) = i]]

\* The loop of load_conversations from record i on: each conversation is
\* made by from_dict and registered under its id; an exception ends the loop
\* and is raised as IOError, with the earlier conversations registered
RECURSIVE LoadAll(_, _, _)
LoadAll(state, datas, i) ==
    IF i > Len(datas) THEN state
    ELSE LET made == from_dict(datas[i])
         IN IF made.raised THEN [state EXCEPT !.error = "IOError"]
            ELSE LET ref == Len(state.lists) + 1
                     conversation ==
                       [id |-> made.id, title |-> made.title, messages |-> ref]
                     ids == DOMAIN state.conversations \cup {made.id}
                 IN LoadAll([state EXCEPT
                               !.lists = Append(@, made.messages),
                               !.conversations =
                                  [id \in ids |-> IF id = made.id THEN conversation
                                                  ELSE state.conversations[id]]],
                            datas, i + 1)

\* The conversations of the client as values: id, title and messages
Snapshot ==
    [id \in DOMAIN conversations |->
       [id |-> conversations[id].id, title |-> conversations[id].title,
        messages |-> lists[conversations[id].messages]]]

\* The messages a conversation can hold, and the conversations drawn
StoredContents == {<<>>, <<"h">>, NoneText}
StoredTitles == {NoneText, <<"T">>}

RECURSIVE MessageLists(_, _)
MessageLists(id, n) ==
    IF n = 0 THEN {<<>>}
    ELSE LET shorter == MessageLists(id, n - 1)
         IN shorter \cup
            {Append(list, Message(content, role, <<"drawn", id, Len(list) + 1>>)) :
               list \in {l \in shorter : Len(l) = n - 1},
               content \in StoredContents, role \in MessageRoles}

\* A client with one or two conversations: the first with a drawn title and
\* drawn messages, the second, when there is one, with its system message
InitStore ==
    /\ batch = NoBatch
    /\ calls = [k \in Calls |-> IdleFrame]
    /\ views = <<>>
    /\ callerAdds = 0
    /\ probe = [op |-> "store", file |-> {}, saved |-> <<>>, fresh |-> FALSE,
                loaded |-> FALSE, error |-> "None"]
    /\ \E title \in StoredTitles, list \in MessageLists(1, MaxStoredLen),
          second \in BOOLEAN :
          /\ conversations =
               IF second
               THEN <<[id |-> 1, title |-> TitleOf(1, title), messages |-> 1],
                      [id |-> 2, title |-> TitleOf(2, NoneText), messages |-> 2]>>
               ELSE <<[id |-> 1, title |-> TitleOf(1, title), messages |-> 1]>>
          /\ lists =
               IF second
               THEN <<list, <<Message(<<"s">>, "system", <<"conv", 2>>)>> >>
               ELSE <<list>>
          /\ system_prompts = IF second THEN <<NoneText, <<"s">> >> ELSE <<NoneText>>

\* AIClient.save_conversations: the to_dict records of all conversations are
\* written to the file
save_conversations ==
    /\ probe.op = "store" /\ probe.file = {}
    /\ probe' = [probe EXCEPT
                   !.file = {DumpFile([i \in 1..Len(list_conversations) |->
                                to_dict(list_conversations[i],
                                        lists[list_conversations[i].messages])])},
                   !.saved = Snapshot]
    /\ UNCHANGED <<conversations, lists, calls, system_prompts, views, callerAdds,
                   batch>>

\* AIClient.__init__ of another client: it has no conversations
NewClient ==
    /\ probe.op = "store" /\ probe.file # {} /\ ~probe.fresh /\ ~probe.loaded
    /\ conversations' = <<>>
    /\ system_prompts' = <<>>
    /\ probe' = [probe EXCEPT !.fresh = TRUE]
    /\ UNCHANGED <<lists, calls, views, callerAdds, batch>>

\* AIClient.load_conversations: IOError when there is no file to open, else
\* the records of the file are loaded one after another
load_conversations ==
    /\ probe.op = "store" /\ ~probe.loaded
    /\ IF probe.file = {}
       THEN /\ probe' = [probe EXCEPT !.loaded = TRUE, !.error = "IOError"]
            /\ UNCHANGED <<conversations, lists, system_prompts>>
       ELSE LET file == CHOOSE f \in probe.file : TRUE
                after == LoadAll([conversations |-> conversations, lists |-> lists,
                                  error |-> "None"], LoadFile(file), 1)
            IN /\ conversations' = after.conversations
               /\ lists' = after.lists
               /\ system_prompts' =
                    [id \in DOMAIN after.conversations |->
                       IF id \in DOMAIN system_prompts /\ after.conversations[id] = conversations[id]
                       THEN system_prompts[id] ELSE NoneText]
               /\ probe' = [probe EXCEPT !.loaded = TRUE, !.error = after.error]
    /\ UNCHANGED <<calls, views, callerAdds, batch>>

NextStore ==
    \/ save_conversations
    \/ NewClient
    \/ load_conversations

SpecStore == InitStore /\ [][NextStore]_vars

\* The file is changed outside the program: the first message of record i
\* gets a role that MessageRole does not have
FileEdited(i) ==
    /\ probe.op = "store" /\ probe.file # {} /\ ~probe.loaded
    /\ LET file == CHOOSE f \in probe.file : TRUE
       IN /\ i \in 1..Len(file)
          /\ file[i].messages # <<>>
          /\ \A j \in 1..Len(file) : \A m \in 1..Len(file[j].messages) :
                file[j].messages[m].role \in MessageRoles
          /\ probe' = [probe EXCEPT
                         !.file = {[file EXCEPT ![i].messages[1].role = "moderator"]}]
    /\ UNCHANGED <<conversations, lists, calls, system_prompts, views, callerAdds,
                   batch>>

\* Saving, adding messages, a change of the file, and loading into the same
\* client or into a new one
NextReload ==
    \/ save_conversations
    \/ \E i \in ConversationIds : FileEdited(i)
    \/ \E id \in ConversationIds, content \in CallerContents :
          CallerAddMessage(id, "user", content) /\ UNCHANGED <<batch, probe>>
    \/ NewClient
    \/ load_conversations

SpecReload == InitStore /\ [][NextReload]_vars

\* ------------------------------------------------------ export_conversation
Uppercase ==
    <<"A", "B", "C", "D", "E", "F", "G", "H", "I", "J", "K", "L", "M",
      "N", "O", "P", "Q", "R", "S", "T", "U", "V", "W", "X", "Y", "Z">>
Lowercase ==
    <<"a", "b", "c", "d", "e", "f", "g", "h", "i", "j", "k", "l", "m",
      "n", "o", "p", "q", "r", "s", "t", "u", "v", "w", "x", "y", "z">>

\* A comparison of the format as it was given
lower_not(text) == text

\* str.lower
lower(text) ==
    [i \in 1..Len(text) |->
       IF \E j \in 1..Len(Uppercase) : Uppercase[j] = text[i]
       THEN Lowercase[CHOOSE j \in 1..Len(Uppercase) : Uppercase[j] = text[i]]
       ELSE text[i]]

\* The formats the caller asks for
ExportFormats ==
    {<<"j", "s", "o", "n">>, <<"J", "S", "O", "N">>, <<"t", "e", "x", "t">>,
     <<"T", "e", "x", "t">>, <<"x", "m", "l">>, <<"j", "s", "o", "n", " ">>, <<>>}

\* role.name.capitalize()
RoleName(role) ==
    CASE role = "system" -> <<"S", "y", "s", "t", "e", "m">>
      [] role = "user" -> <<"U", "s", "e", "r">>
      [] role = "assistant" -> <<"A", "s", "s", "i", "s", "t", "a", "n", "t">>
      [] role = "function" -> <<"F", "u", "n", "c", "t", "i", "o", "n">>

\* The text of a content in an f-string: str(None) is the word None
Str(content) == IF content = NoneText THEN <<"N", "o", "n", "e">> ELSE content

\* The text export: the title line, and for each message a paragraph with
\* the time, the name of the role and the content
TextOutput(title, list) ==
    [title |-> <<"# ">> \o title \o <<"\n\n">>,
     paragraphs |-> [i \in 1..Len(list) |->
                       [timestamp |-> <<"strftime", list[i].timestamp>>,
                        role_name |-> RoleName(list[i].role),
                        content |-> Str(list[i].content) \o <<"\n\n">>]]]

\* What an export returns: nothing, a to_dict record, or a text
Exported(dicts, texts) == [dict |-> dicts, text |-> texts]

\* AIClient.export_conversation: ValueError for an id that is not
\* registered or for a format that is neither json nor text, else the
\* to_dict record or the text.  The copy that conversation.messages makes
\* for the text is dropped at the return.
export_conversation(conversation_id, format) ==
    /\ LET found == get_conversation(conversation_id)
           call == [op |-> "export", conversation_id |-> conversation_id,
                    format |-> format]
       IN IF found = {}
          THEN probe' = call @@ [raised |-> "ValueError", returned |-> Exported({}, {})]
          ELSE LET conversation == CHOOSE c \in found : TRUE
                   list == lists[conversation.messages]
               IN IF lower(format) = <<"j", "s", "o", "n">>
                  THEN probe' = call @@
                         [raised |-> "None",
                          returned |-> Exported({to_dict(conversation, list)}, {})]
                  ELSE IF lower(format) = <<"t", "e", "x", "t">>
                  THEN probe' = call @@
                         [raised |-> "None",
                          returned |->
                              Exported({}, {TextOutput(conversation.title, list)})]
                  ELSE probe' = call @@
                         [raised |-> "ValueError", returned |-> Exported({}, {})]
    /\ UNCHANGED <<conversations, lists, calls, system_prompts, views, callerAdds,
                   batch>>

NextExport ==
    \/ \E title \in Titles, system_prompt \in CallerSystemPrompts :
          /\ Cardinality(DOMAIN conversations) < MaxCallerConversations
          /\ create_conversation(title, system_prompt)
          /\ UNCHANGED <<batch, probe>>
    \/ \E k \in 1..MaxCallerCalls, id \in ConversationIds, content \in CallerContents :
          send_message(k, id, content) /\ UNCHANGED <<batch, probe>>
    \/ \E k \in Calls, response \in Responses :
          BackendReturns(k, response) /\ UNCHANGED <<batch, probe>>
    \/ \E k \in Calls, e \in ProviderErrors :
          BackendRaises(k, e) /\ UNCHANGED <<batch, probe>>
    \/ \E id \in ConversationIds, format \in ExportFormats :
          export_conversation(id, format)

SpecExport == Init /\ [][NextExport]_vars

\* ------------------------------------------------------ get_latest_messages
\* list[start:]: a negative start counts from the end, and a start outside
\* the list is moved to its nearer end
SliceFrom(list, start) ==
    LET n == Len(list)
        from == IF start < 0 THEN (IF start + n < 0 THEN 0 ELSE start + n)
                ELSE (IF start > n THEN n ELSE start)
    IN SubSeq(list, from + 1, n)

\* Conversation.get_latest_messages:
\* self._messages[-count:] if self._messages else []
get_latest_messages(list, count) ==
    IF list # <<>> THEN SliceFrom(list, 0 - count) ELSE <<>>

\* The conversations read: up to MaxLatest messages of users and assistant,
\* numbered in their content, and the counts asked for
RECURSIVE NumberedLists(_)
NumberedLists(n) ==
    IF n = 0 THEN {<<>>}
    ELSE LET shorter == NumberedLists(n - 1)
         IN shorter \cup
            {Append(list, Message(<<"M", Len(list)>>, role, <<"drawn", 1, Len(list)>>)) :
               list \in {l \in shorter : Len(l) = n - 1},
               role \in {"user", "assistant"}}
Counts == 0..(MaxLatest + 1)

\* A conversation with its messages, and a caller about to read the latest
InitLatest ==
    /\ batch = NoBatch
    /\ calls = [k \in Calls |-> IdleFrame]
    /\ views = <<>>
    /\ callerAdds = 0
    /\ system_prompts = <<NoneText>>
    /\ conversations = <<[id |-> 1, title |-> TitleOf(1, NoneText), messages |-> 1]>>
    /\ \E list \in NumberedLists(MaxLatest), count \in Counts :
          /\ lists = <<list>>
          /\ probe = [op |-> "latest", count |-> count, stored |-> list,
                      done |-> FALSE, returned |-> <<>>]

\* The caller calls get_latest_messages(count) on the conversation
GetLatestMessages ==
    /\ probe.op = "latest" /\ ~probe.done
    /\ probe' = [probe EXCEPT
                   !.done = TRUE,
                   !.returned = get_latest_messages(lists[conversations[1].messages],
                                                    probe.count)]
    /\ UNCHANGED <<conversations, lists, calls, system_prompts, views, callerAdds,
                   batch>>

NextLatest == GetLatestMessages

SpecLatest == InitLatest /\ [][NextLatest]_vars

\* ------------------------------------------------------------ the claims
\* The stored message sequence of the conversation registered under id
Stored(id) == lists[conversations[id].messages]

\* The positions of `list` that hold a message constructed by call k
MadeBy(list, k) ==
    {i \in 1..Len(list) : list[i].id[2][1] = "call" /\ list[i].id[2][2] = k}

\* C1: when a send_message call on a registered conversation has returned,
\* the conversation holds exactly two messages of that call: its user message
\* with the given content and, after it, its assistant message with the
\* content of the backend's first choice; the value returned is that
\* assistant message.
C1_SendAppendsUserThenAssistant ==
    \A k \in Calls : calls[k].pc = "returned" =>
        LET L == Stored(calls[k].conversation_id)
            u == calls[k].user_message[1]
            a == calls[k].ai_message[1]
        IN /\ Cardinality(MadeBy(L, k)) = 2
           /\ \E i, j \in MadeBy(L, k) : i < j /\ L[i] = u /\ L[j] = a
           /\ u.role = "user" /\ u.content = calls[k].message_content
           /\ a.role = "assistant" /\ a.content = calls[k].response[1][1]
           /\ calls[k].returned = <<a>>

\* a call has returned while another call on the same conversation is in flight
C1_Witness ==
    \E k, j \in Calls :
        /\ calls[k].pc = "returned" /\ calls[j].pc = "awaiting"
        /\ calls[j].conversation_id = calls[k].conversation_id

\* C2: every assistant message stored in a conversation immediately follows
\* the user message of the call that produced it.
C2_RepliesFollowTheirUserMessage ==
    \A id \in DOMAIN conversations :
        LET L == Stored(id)
        IN \A i \in 1..Len(L) : L[i].role = "assistant" =>
              /\ i > 1
              /\ \E k \in Calls : /\ calls[k].ai_message = <<L[i]>>
                                   /\ calls[k].user_message = <<L[i - 1]>>

\* The messages of conversation id are its own system message and the
\* messages of the calls made on id.
OwnOnly(id) ==
    LET L == Stored(id)
    IN \A i \in 1..Len(L) :
          \/ L[i].id = <<"msg", <<"conv", id>>>>
          \/ \E k \in Calls : /\ calls[k].conversation_id = id
                               /\ <<L[i]>> \in {calls[k].user_message, calls[k].ai_message}

\* C3: every conversation holds only the messages of its own calls, and a
\* step of a call on one conversation id leaves the message sequence of
\* every other conversation as it was.
C3_DistinctConversationsIndependent ==
    [][/\ \A id \in DOMAIN conversations' : OwnOnly(id)'
       /\ \A k \in Calls : calls'[k] # calls[k] =>
             \A id \in DOMAIN conversations :
                id # calls'[k].conversation_id => Stored(id)' = Stored(id)]_vars

\* two calls on two distinct conversations, one returned while the other is
\* still awaiting the backend
C3_Witness ==
    \E k, j \in Calls :
        /\ calls[k].pc = "returned" /\ calls[j].pc = "awaiting"
        /\ calls[j].conversation_id # calls[k].conversation_id
        /\ Len(Stored(calls[j].conversation_id)) >= 1

\* C4: a send_message call on an id that is not registered raises the
\* not-found ValueError without invoking the backend and leaves the
\* registered conversations and every list as they were.
C4_UnknownIdRaisesAndChangesNothing ==
    [][\A k \in Calls :
          (/\ calls[k].pc = "idle" /\ calls'[k].pc # "idle"
           /\ calls'[k].conversation_id \notin DOMAIN conversations)
          => /\ calls'[k].pc = "raised" /\ calls'[k].error = "ValueError"
             /\ ~calls'[k].invoked
             /\ lists' = lists /\ conversations' = conversations]_vars

\* a call on an unregistered id has raised while a conversation with
\* messages is registered
C4_Witness ==
    \E k \in Calls :
        /\ calls[k].pc = "raised" /\ calls[k].error = "ValueError"
        /\ calls[k].conversation_id \notin DOMAIN conversations
        /\ \E id \in DOMAIN conversations : Stored(id) # <<>>

\* C5: when the backend call of a send_message fails (it raises, or its
\* response has no choice), the call raises ConnectionError, its user
\* message is stored once and it is the only message of the call in the
\* conversation.
C5_BackendFailureKeepsUserMessage ==
    \A k \in Calls : (calls[k].pc = "raised" /\ calls[k].invoked) =>
        LET L == Stored(calls[k].conversation_id)
        IN /\ calls[k].error = "ConnectionError"
           /\ calls[k].ai_message = <<>> /\ calls[k].returned = <<>>
           /\ Cardinality(MadeBy(L, k)) = 1
           /\ \E i \in MadeBy(L, k) : L[i] = calls[k].user_message[1]

\* a call whose backend call failed, on a conversation that holds more than
\* this call's user message
C5_Witness ==
    \E k \in Calls :
        /\ calls[k].pc = "raised" /\ calls[k].invoked
        /\ Len(Stored(calls[k].conversation_id)) >= 2

\* C6: a send_message call on a registered conversation with empty content
\* raises before it appends a message and before it invokes the backend.
C6_EmptyContentRejected ==
    \A k \in Calls :
        (/\ calls[k].pc # "idle" /\ calls[k].message_content = <<>>
         /\ calls[k].conversation_id \in DOMAIN conversations)
        => /\ calls[k].pc = "raised"
           /\ ~calls[k].invoked
           /\ calls[k].user_message = <<>>

\* C7: every message stored in a conversation has content that is not empty
\* after trimming whitespace.
C7_StoredContentNonEmpty ==
    \A id \in DOMAIN conversations :
        \A i \in 1..Len(Stored(id)) :
            /\ Stored(id)[i].content # NoneText
            /\ strip(Stored(id)[i].content) # <<>>

\* C8: a conversation created with a non-empty system prompt holds exactly
\* one system message, and it is the first element and carries the prompt.
C8_SystemMessageFirstAndOnly ==
    \A id \in DOMAIN conversations : Truthy(system_prompts[id]) =>
        LET L == Stored(id)
        IN /\ L # <<>>
           /\ L[1].role = "system" /\ L[1].content = system_prompts[id]
           /\ {i \in 1..Len(L) : L[i].role = "system"} = {1}

\* a conversation with a system prompt after a returned send and a failed one
C8_Witness ==
    \E id \in DOMAIN conversations :
        /\ Truthy(system_prompts[id])
        /\ \E k, j \in Calls :
              /\ calls[k].conversation_id = id /\ calls[k].pc = "returned"
              /\ calls[j].conversation_id = id /\ calls[j].pc = "raised"
              /\ calls[j].invoked

\* The list references held by the conversations
StoredRefs == {conversations[id].messages : id \in DOMAIN conversations}

\* C9: each read of Conversation.messages yields a new list, none of the
\* lists in use before, equal to the stored sequence at that moment, and a
\* mutation of a list so obtained leaves every stored sequence as it was.
C9_MessagesIsADefensiveCopy ==
    [][/\ Len(views') > Len(views) =>
             LET w == views'[Len(views')]
             IN /\ w.ref \notin StoredRefs
                /\ \A v \in DOMAIN views : views[v].ref # w.ref
                /\ w.conversation_id \in DOMAIN conversations
                /\ \A id \in DOMAIN conversations : w.conversation_id = id =>
                      lists'[w.ref] = Stored(id) /\ Stored(id)' = Stored(id)
       /\ \A v \in DOMAIN views : views'[v].mutations > views[v].mutations =>
             \A id \in DOMAIN conversations : Stored(id)' = Stored(id)]_vars

\* the caller has mutated a list it got from a conversation with messages,
\* and the list now differs from the stored sequence
C9_Witness ==
    \E v \in DOMAIN views :
        /\ views[v].mutations > 0
        /\ Stored(views[v].conversation_id) # <<>>
        /\ lists[views[v].ref] # Stored(views[v].conversation_id)

Analysed == probe.op = "analyze_email" /\ probe.done /\ ~probe.raised
               /\ probe.content # NoneText

\* The positions of the digits of a text
DigitsAt(t) == {i \in 1..Len(t) : t[i] \in Digits}

\* The last position of the unbroken run of digits that starts at i
RunEnd(t, i) ==
    CHOOSE j \in i..Len(t) :
        /\ \A m \in i..j : t[m] \in Digits
        /\ j = Len(t) \/ t[j + 1] \notin Digits

\* The number written by the digits at positions i..j
RECURSIVE Written(_, _, _)
Written(t, i, j) ==
    IF i > j THEN 0 ELSE DigitValue(t[i]) * Pow10(j - i) + Written(t, i + 1, j)

\* The first numeral of a text that has a digit: its whole part, and its
\* decimal part when a point and a digit follow the whole part
FirstNumeral(t) ==
    LET i == CHOOSE i \in DigitsAt(t) : \A m \in DigitsAt(t) : i <= m
        j == RunEnd(t, i)
        decimal == j + 2 <= Len(t) /\ t[j + 1] = "." /\ t[j + 2] \in Digits
        k == IF decimal THEN RunEnd(t, j + 2) ELSE j
    IN IF decimal
       THEN [n |-> Written(t, i, j) * Pow10(k - j - 1) + Written(t, j + 2, k),
             d |-> k - j - 1]
       ELSE Whole(Written(t, i, j))

Same(a, b) == a.n * Pow10(b.d) = b.n * Pow10(a.d)

\* C14: the score of a reply is its first integer-or-decimal numeral (limited
\* to 100), so "75% probability of spam" scores 75; a reply with no numeral,
\* such as "This email does not appear to be spam.", scores 0.
C14_ScoreIsFirstNumeral ==
    Analysed =>
        /\ DigitsAt(probe.content) = {} => probe.result.value = Whole(0)
        /\ DigitsAt(probe.content) # {} =>
              LET x == FirstNumeral(probe.content)
              IN IF Less(Whole(MaxPct), x) THEN probe.result.value = Whole(MaxPct)
                 ELSE Same(probe.result.value, x)
        /\ probe.content = PercentageReply => probe.result.value = Whole(75)
        /\ probe.content = WordsReply => probe.result.value = Whole(0)

\* A reply with two numerals, the first a decimal, has been scored
C14_Witness ==
    /\ Analysed
    /\ probe.content = <<"1", ".", "5", "0">> \/ probe.content = <<"1", " ", "5">>
          \/ probe.content = PercentageReply
    /\ probe.result.value \in {[n |-> 15, d |-> 1], Whole(1), Whole(75)}

\* The first numeral of the text follows a minus sign
NegativeNumeral(t) ==
    /\ DigitsAt(t) # {}
    /\ LET i == CHOOSE i \in DigitsAt(t) : \A m \in DigitsAt(t) : i <= m
       IN i > 1 /\ t[i - 1] = "-"

\* C15: the score is limited to the range 0..100: "150" scores 100 and "-10"
\* scores 0, as does every reply whose first numeral is negative.
C15_ClampedBothWays ==
    Analysed =>
        /\ probe.content = <<"1", "5", "0">> => probe.result.value = Whole(100)
        /\ probe.content = <<"-", "1", "0">> => probe.result.value = Whole(0)
        /\ NegativeNumeral(probe.content) => probe.result.value = Whole(0)

\* C16: analyze_email returns a value for every outcome of its send_message
\* call and every reply (empty, without a numeral or without a body), and
\* the value lies between 0 and 100.
C16_ExtractionTotalAndBounded ==
    (probe.op = "analyze_email" /\ probe.done) =>
        /\ ~probe.result.raised
        /\ ~Less(probe.result.value, Whole(0))
        /\ ~Less(Whole(100), probe.result.value)

\* The three outcomes that could raise or leave the range have been analysed
C16_Witness ==
    /\ probe.op = "analyze_email" /\ probe.done
    /\ \/ probe.raised /\ probe.result.printed # <<>>
       \/ ~probe.raised /\ probe.content = NoneText /\ probe.result.printed # <<>>
       \/ ~probe.raised /\ probe.content = <<"1", "5", "0">>
    /\ probe.result.value \in {Whole(0), Whole(100)}

\* The frame of the send_message call made for the email at position i
CallOf(i) == calls[batch.sent[i]]

\* C11: when analyze_inbox has returned, its output has exactly one row for
\* each email that get_messages gave it, whichever of the backend calls
\* failed; until then it has one row for each email already analysed.
C11_OneRowPerItem ==
    /\ batch.pc = "done" =>
          /\ Len(batch.results) = Len(batch.messages)
          /\ \A i \in 1..Len(batch.messages) : CallOf(i).pc \in {"returned", "raised"}
    /\ batch.pc \in {"item", "awaiting"} =>
          /\ Len(batch.results) = batch.i - 1
          /\ batch.i <= Len(batch.messages)

\* A batch of two emails has ended, one backend call failed and one did not
C11_Witness ==
    /\ batch.pc = "done"
    /\ Len(batch.messages) = 2 /\ Len(batch.results) = 2
    /\ \E i, j \in 1..2 : CallOf(i).pc = "raised" /\ CallOf(j).pc = "returned"

\* C12: row i of the output carries the identifier of email i; the row of an
\* email whose backend call failed has the score 0, every other row has the
\* score written in the reply to its own email.
C12_RowsMatchItems ==
    \A i \in 1..Len(batch.results) :
        /\ batch.results[i].mail_id = batch.messages[i].id
        /\ CallOf(i).message_content = Prompt(batch.messages[i].body)
        /\ CallOf(i).pc = "raised" => batch.results[i].Pct_spam = Whole(0)
        /\ CallOf(i).pc = "returned" =>
              Same(batch.results[i].Pct_spam, FirstNumeral(CallOf(i).response[1][1]))

\* The first email failed, the second was scored from its reply, and the two
\* rows differ
C12_Witness ==
    /\ batch.pc = "done" /\ Len(batch.results) = 2
    /\ CallOf(1).pc = "raised" /\ CallOf(2).pc = "returned"
    /\ batch.results[1].Pct_spam = Whole(0)
    /\ batch.results[2].Pct_spam = Whole(42)

SameConversation(a, b) ==
    /\ a.id = b.id
    /\ a.title = b.title
    /\ Len(a.messages) = Len(b.messages)
    /\ \A i \in 1..Len(a.messages) :
          /\ a.messages[i].content = b.messages[i].content
          /\ a.messages[i].role = b.messages[i].role

\* C17: to_dict followed by from_dict reproduces the id, the title, the
\* message count and each message's content and role in order, and so does
\* save_conversations followed by load_conversations into a new client.
C17_SerializeRoundTrip ==
    /\ \A id \in DOMAIN conversations :
          LET made == from_dict(to_dict(conversations[id], Stored(id)))
          IN ~made.raised /\ SameConversation(made, Snapshot[id])
    /\ (probe.op = "store" /\ probe.fresh /\ probe.loaded) =>
          /\ probe.error = "None"
          /\ DOMAIN conversations = DOMAIN probe.saved
          /\ \A id \in DOMAIN conversations :
                SameConversation(Snapshot[id], probe.saved[id])

\* Two conversations, one with a default title and two messages of
\* different roles, one of them without content, were saved and loaded into
\* a new client
C17_Witness ==
    /\ probe.op = "store" /\ probe.fresh /\ probe.loaded
    /\ DOMAIN conversations = {1, 2}
    /\ conversations[1].title = <<"Conversation", 1>>
    /\ Len(Stored(1)) = 2
    /\ Stored(1)[1].role = "function" /\ Stored(1)[1].content = NoneText
    /\ Stored(1)[2].role = "assistant" /\ Stored(1)[2].content = <<"h">>
    /\ conversations[1].messages # 1

\* C18: every conversation that create_conversation has returned is stored
\* under its own id: get_conversation(id) gives it, list_conversations has
\* one entry for each create_conversation call, each call adds one entry and
\* leaves the earlier ones in place, and get_conversation of an id that was
\* never registered gives nothing and does not raise.
C18_CreatedConversationsAreStored ==
    /\ [](/\ \A id \in DOMAIN system_prompts :
                /\ id \in DOMAIN conversations
                /\ get_conversation(id) = {conversations[id]}
                /\ conversations[id].id = id
          /\ Len(list_conversations) = Cardinality(DOMAIN system_prompts)
          /\ \A id \in ConversationIds \ DOMAIN system_prompts :
                get_conversation(id) = {})
    /\ [][system_prompts' # system_prompts =>
            /\ Len(list_conversations') = Len(list_conversations) + 1
            /\ \A id \in DOMAIN conversations :
                  get_conversation(id)' = get_conversation(id)
            /\ \E id \in DOMAIN conversations' \ DOMAIN conversations :
                  list_conversations'[Len(list_conversations')] = conversations'[id]]_vars

\* Two conversations were created, both are listed and an id is still free
C18_Witness ==
    /\ Len(list_conversations) = 2
    /\ get_conversation(1) # {} /\ get_conversation(2) # {}
    /\ get_conversation(1) # get_conversation(2)

\* The text is the word, in any mix of upper and lower case
IsWord(text, word) ==
    /\ Len(text) = Len(word)
    /\ \A i \in 1..Len(word) :
          \E j \in 1..Len(Lowercase) :
             Lowercase[j] = word[i] /\ text[i] \in {Lowercase[j], Uppercase[j]}

\* C19: an export_conversation call raises ValueError when the id is not
\* registered or the format is neither json nor text in any mix of cases,
\* returns otherwise, and in both cases leaves the registered conversations
\* and their message sequences as they were.
C19_ExportValidatesAndReadsOnly ==
    [][probe' # probe =>
         /\ probe'.raised = "ValueError" <=>
               \/ probe'.conversation_id \notin DOMAIN conversations
               \/ /\ ~IsWord(probe'.format, <<"j", "s", "o", "n">>)
                  /\ ~IsWord(probe'.format, <<"t", "e", "x", "t">>)
         /\ probe'.raised = "None" => probe'.returned # Exported({}, {})
         /\ conversations' = conversations
         /\ lists' = lists]_vars

\* An export of a conversation that holds a question and its reply has
\* failed for its format
C19_Witness ==
    /\ probe.op = "export"
    /\ probe.raised = "ValueError"
    /\ probe.conversation_id \in DOMAIN conversations
    /\ probe.format = <<"x", "m", "l">>
    /\ Len(Stored(probe.conversation_id)) = 3

\* C20: get_latest_messages(count) on a conversation of n messages returns
\* its last min(count, n) messages in stored order, for every count >= 0,
\* and leaves the stored sequence as it was.
C20_LatestIsLastMinCountN ==
    (probe.op = "latest" /\ probe.done) =>
        LET n == Len(probe.stored)
            m == IF probe.count < n THEN probe.count ELSE n
        IN /\ Len(probe.returned) = m
           /\ \A i \in 1..m : probe.returned[i] = probe.stored[n - m + i]
           /\ Stored(1) = probe.stored

\* The sequence a is the beginning of the sequence b
IsPrefix(a, b) == Len(a) <= Len(b) /\ SubSeq(b, 1, Len(a)) = a

\* C21: in every step of create_conversation and send_message calls, each
\* registered conversation stays registered and its stored sequence before
\* the step is a prefix of its stored sequence after it, so no stored
\* message changes or moves.
C21_StoredSequenceOnlyGrowsAtEnd ==
    [][\A id \in DOMAIN conversations :
          /\ id \in DOMAIN conversations'
          /\ IsPrefix(Stored(id), Stored(id)')]_vars

\* A conversation holds the messages of a call that failed at the backend
\* and of a call that returned, behind its system message
C21_Witness ==
    \E id \in DOMAIN conversations :
        /\ Len(Stored(id)) = 4
        /\ Stored(id)[1].role = "system"
        /\ \E k, j \in Calls :
              /\ calls[k].conversation_id = id /\ calls[j].conversation_id = id
              /\ calls[k].pc = "raised" /\ calls[k].invoked
              /\ calls[j].pc = "returned"

\* C22: in the step in which a send_message call on a registered
\* conversation reaches its backend call, the history it hands over is the
\* whole stored sequence of the conversation after that step, in order, as
\* role and content, and the last element is the user message that the call
\* has appended in the same step.
C22_HistoryIsStoredSequenceEndingInOwnMessage ==
    [][\A k \in Calls :
          (calls[k].pc = "idle" /\ calls'[k].pc = "awaiting") =>
             \A id \in DOMAIN conversations : calls'[k].conversation_id = id =>
                LET before == Stored(id)
                    after == Stored(id)'
                    history == calls'[k].messages
                IN /\ Len(after) = Len(before) + 1
                   /\ Len(history) = Len(after)
                   /\ \A i \in 1..Len(after) : history[i] = MessageToDict(after[i])
                   /\ after[Len(after)] = calls'[k].user_message[1]
                   /\ history[Len(history)] =
                         [role |-> "user", content |-> calls'[k].message_content]]_vars

\* A call waits for the backend with a history that holds the user message
\* of another call that is waiting too
C22_Witness ==
    \E k, j \in Calls :
        /\ k # j
        /\ calls[k].pc = "awaiting" /\ calls[j].pc = "awaiting"
        /\ calls[k].conversation_id = calls[j].conversation_id
        /\ Len(calls[k].messages) >= 2
        /\ \E i \in 1..(Len(calls[k].messages) - 1) :
              calls[k].messages[i] = MessageToDict(calls[j].user_message[1])

\* The number of messages of a role in a list
CountRole(list, role) == Cardinality({i \in 1..Len(list) : list[i].role = role})

\* C26: in every state reached by create_conversation and send_message
\* calls, a stored conversation has no more assistant messages than user
\* messages, and each assistant message is stored after the user message of
\* the call that made it.
C26_RepliesNeverOutnumberQuestions ==
    \A id \in DOMAIN conversations :
        LET L == Stored(id)
        IN /\ CountRole(L, "assistant") <= CountRole(L, "user")
           /\ \A j \in 1..Len(L) : L[j].role = "assistant" =>
                 \E i \in 1..(j - 1) :
                    /\ L[i].role = "user"
                    /\ L[i].id = <<"msg", <<"call", L[j].id[2][2], "user">> >>

\* Two calls on one conversation: the one that started second has its reply
\* stored, the one that started first failed
C26_Witness ==
    \E id \in DOMAIN conversations :
        /\ CountRole(Stored(id), "user") = 2
        /\ CountRole(Stored(id), "assistant") = 1
        /\ calls[1].conversation_id = id /\ calls[2].conversation_id = id
        /\ calls[1].pc = "raised" /\ calls[1].invoked
        /\ calls[2].pc = "returned"

\* The send_message calls that reached the backend, and those still there
Invoked == {k \in Calls : calls[k].invoked}
Outstanding == {k \in Calls : calls[k].pc = "awaiting"}

\* C23: analyze_inbox makes one backend call for each email it processes
\* and repeats none: the number of backend calls is the number of rows plus
\* the call that is outstanding, so at the end it is the number of rows.
C23_OneBackendCallPerRow ==
    /\ Cardinality(Invoked) = Len(batch.results) + Cardinality(Outstanding)
    /\ batch.pc = "done" => Cardinality(Invoked) = Len(batch.results)

\* A batch of two emails has ended after two backend calls, both failed
C23_Witness ==
    /\ batch.pc = "done"
    /\ Len(batch.results) = 2 /\ Cardinality(Invoked) = 2
    /\ \A k \in Invoked : calls[k].pc = "raised"

\* C24: every send of a batch goes to the one conversation made by the
\* detector's constructor, a send starts only when every earlier send has
\* returned or failed, and so at most one backend call is outstanding.
C24_SendsAreSequentialOnOneConversation ==
    /\ Cardinality(DOMAIN conversations) <= 1
    /\ Cardinality(Outstanding) <= 1
    /\ \A k \in Calls : calls[k].pc # "idle" =>
          /\ {calls[k].conversation_id} = {c.id : c \in batch.conversation}
          /\ \A j \in Calls : j < k => calls[j].pc \in {"returned", "raised"}

\* The send of the second email waits for the backend after the send of the
\* first has failed
C24_Witness ==
    /\ batch.pc = "awaiting" /\ batch.i = 2
    /\ calls[1].pc = "raised" /\ calls[2].pc = "awaiting"
    /\ calls[1].conversation_id = calls[2].conversation_id

\* The backend call of email i raised, or the extraction of the score from
\* its reply did (the reply has no body)
Suppressed(i) ==
    \/ CallOf(i).pc = "raised"
    \/ CallOf(i).pc = "returned" /\ CallOf(i).response[1][1] = NoneText

\* C25: every failure the batch suppresses is printed: the number of lines
\* printed is the number of emails whose backend call or score extraction
\* raised, and each of these has the score 0.
C25_SuppressedFailuresAreLogged ==
    LET failed == {i \in 1..Len(batch.results) : Suppressed(i)}
    IN /\ Len(batch.printed) = Cardinality(failed)
       /\ \A i \in failed : batch.results[i].Pct_spam = Whole(0)

\* A batch has ended with a failed backend call and a reply without a body,
\* and two lines printed
C25_Witness ==
    /\ batch.pc = "done" /\ Len(batch.results) = 2
    /\ CallOf(1).pc = "raised"
    /\ CallOf(2).pc = "returned" /\ CallOf(2).response[1][1] = NoneText
    /\ Len(batch.printed) = 2

\* The history the backend would get for an email with this body if nothing
\* but the system prompt and the email itself went into it
OwnHistory(body) ==
    <<[role |-> "system", content |-> SpamSystemPrompt],
      [role |-> "user", content |-> Prompt(body)]>>

\* C29: the history handed to the backend for an email depends only on the
\* body of that email and on the system prompt, whatever the other emails
\* of the batch are and whichever earlier calls failed.
C29_HistoryDependsOnOwnItemOnly ==
    \A i \in 1..Len(batch.sent) :
        CallOf(i).invoked => CallOf(i).messages = OwnHistory(batch.messages[i].body)

\* The step is a load_conversations call
LoadStep == probe.op = "store" /\ ~probe.loaded /\ probe'.loaded

\* C27: a load_conversations call keeps every conversation id that was
\* registered before it, and the sequence stored under the id before the
\* load is a prefix of the sequence stored under it after the load.
C27_LoadKeepsWhatIsHeld ==
    [][LoadStep =>
          \A id \in DOMAIN conversations :
              /\ id \in DOMAIN conversations'
              /\ IsPrefix(Stored(id), Stored(id)')]_vars

\* C28: a load_conversations call that raises IOError leaves the registered
\* conversations, their titles and their messages as they were before it.
C28_FailedLoadChangesNothing ==
    [][(LoadStep /\ probe'.error = "IOError") => Snapshot' = Snapshot]_vars

\* C30: for every outcome of the backend call and every reply,
\* get_spam_probability and analyze_email give the same score, and neither
\* raises where the other returns.
C30_DriversAgree ==
    (probe.op = "analyze_email" /\ probe.done /\ "other" \in DOMAIN probe) =>
        /\ probe.other.raised = probe.result.raised
        /\ probe.other.value = probe.result.value

====
